---------------------------- MODULE Spec2Model ----------------------------
(***************************************************************************)
(* A model of the IBA internship portal (src/app.py): a Streamlit script   *)
(* that is re-run from the top on every user interaction, a Firestore      *)
(* document store (users/{uid}, users/{uid}/applications, reviews) and the *)
(* Firebase identity provider.                                             *)
(*                                                                         *)
(* One action is one run of the script for one browser session: the        *)
(* handler of the widget the user pressed, every store call it makes       *)
(* included.  A store or identity-provider call can fail (raise); the      *)
(* failure point is an input of the action.                                *)
(***************************************************************************)
EXTENDS Integers, Sequences, FiniteSets, TLC

\* ------------------------------------------------------------------ bounds
MaxApps == 2        \* rows in a session's application table
MaxReviews == 2     \* documents in the reviews collection
MaxKpiLen == 3      \* rows of the tables calculate_kpis is checked on
MaxRuns == 8        \* script runs in a behaviour of the portal specification

\* --------------------------------------------------------------- universes
Sessions == {"s1", "s2"}      \* browser sessions (one st.session_state each)
None == "None"                \* Python's None in firebase_user
NoIndex == 0                  \* Python's None in edit_review_index (indices are 1-based here)

\* Addresses typed into the forms.  The first two are the registered members.
EmailA == "a@iba.edu.pk"
EmailB == "b@khi.iba.edu.pk"
FormEmails ==
    {EmailA, EmailB, "c@gmail.com", "d@xiba.edu.pk", "iba.edu.pk", "@iba.edu.pk@x.io", ""}
MemberEmails == {EmailA, EmailB}

\* The provider issues one opaque localId per account.
LocalId(email) == "uid:" \o email
Uids == {LocalId(e) : e \in FormEmails}
UserA == LocalId(EmailA)
UserB == LocalId(EmailB)

\* ------------------------------------------------------------------- state
VARIABLES
    \* st.session_state, one per session (src/app.py:65-78)
    firebase_user,       \* None or the localId of the signed-in account
    show_forgot,
    data_loaded,
    applications,        \* the cached application table: a sequence of rows
    reviews,             \* the cached review list: a sequence of documents with "id"
    show_form,
    edit_review_index,   \* NoIndex or a 1-based index into reviews
    kpis,                \* the three metrics last rendered on the profile page
    \* the feed page as last drawn, one per session (src/app.py:465-485)
    filtered_reviews,    \* the reviews the filter kept, in cache order
    top_reviews,         \* the reviews listed under "Top Reviews"
    \* the identity provider
    idp_accounts,        \* the registered addresses
    \* the document store
    db_users,            \* users/{uid}: [profile_completed, full_name]
    db_apps,             \* users/{uid}/applications in document-id (stream) order
    db_reviews,          \* reviews/{id}: a function from the ids in use to documents
    \* what the last script run did and how it ended
    last,
    \* the script runs so far, counted where a specification bounds them
    runs

sessionVars == <<firebase_user, show_forgot, data_loaded, applications, reviews,
                 show_form, edit_review_index, kpis>>
storeVars == <<idp_accounts, db_users, db_apps, db_reviews>>
feedVars == <<filtered_reviews, top_reviews>>
vars == <<firebase_user, show_forgot, data_loaded, applications, reviews,
          show_form, edit_review_index, kpis, filtered_reviews, top_reviews,
          idp_accounts, db_users, db_apps, db_reviews, last, runs>>

\* How a script run ends.
\*   "ok"        the handler ran to its end without an exception
\*   "rejected"  a validation message was shown, no external call was made
\*   "error"     an exception was caught by the handler and shown with st.error
\*   "uncaught"  an exception left the script (no handler caught it)
Outcomes == {"ok", "rejected", "error", "uncaught"}

\* op: the widget handled; sent: whether a request went to the identity provider;
\* rid: the review document the run wrote to (0: none); before: the array
\* field a toggle wrote to, as it was in the store before the write.
LastWrite(op, s, outcome, rid, before) ==
    [op |-> op, s |-> s, outcome |-> outcome, email |-> "", sent |-> FALSE,
     rid |-> rid, before |-> before]

Last(op, s, outcome, email, sent, rid) ==
    [op |-> op, s |-> s, outcome |-> outcome, email |-> email, sent |-> sent,
     rid |-> rid, before |-> <<>>]

\* ---------------------------------------------------------- authentication
EndsWith(str, suffix) ==
    /\ Len(str) >= Len(suffix)
    /\ SubSeq(str, Len(str) - Len(suffix) + 1, Len(str)) = suffix

allowed_domains == <<"@iba.edu.pk", "@khi.iba.edu.pk">>

\* A weaker variant of is_iba_user: the suffix test without the leading "@".
is_iba_user_NoAt(email) ==
    \E i \in 1..Len(allowed_domains) :
        EndsWith(email, SubSeq(allowed_domains[i], 2, Len(allowed_domains[i])))

is_iba_user(email) ==
    \E i \in 1..Len(allowed_domains) : EndsWith(email, allowed_domains[i])

\* session_state as first created, and as re-created after Logout's clear().
ZeroKpis == [total |-> 0, rejected |-> 0, in_progress |-> 0]

InitSession ==
    /\ firebase_user = [s \in Sessions |-> None]
    /\ show_forgot = [s \in Sessions |-> FALSE]
    /\ data_loaded = [s \in Sessions |-> FALSE]
    /\ applications = [s \in Sessions |-> <<>>]
    /\ reviews = [s \in Sessions |-> <<>>]
    /\ show_form = [s \in Sessions |-> FALSE]
    /\ edit_review_index = [s \in Sessions |-> NoIndex]
    /\ kpis = [s \in Sessions |-> ZeroKpis]

\* The "Sign In" form.
SignIn(s, email, accepted) ==
    /\ firebase_user[s] = None
    /\ IF ~is_iba_user(email)
         THEN /\ last' = Last("sign_in", s, "rejected", email, FALSE, 0)
              /\ UNCHANGED firebase_user
         ELSE IF accepted /\ email \in idp_accounts
           THEN /\ firebase_user' = [firebase_user EXCEPT ![s] = LocalId(email)]
                /\ last' = Last("sign_in", s, "ok", email, TRUE, 0)
           ELSE /\ last' = Last("sign_in", s, "error", email, TRUE, 0)
                /\ UNCHANGED firebase_user
    /\ UNCHANGED <<show_forgot, data_loaded, applications, reviews, show_form,
                   edit_review_index, kpis>>
    /\ UNCHANGED storeVars

\* The "Forgot Password?" button.
ForgotPassword(s) ==
    /\ firebase_user[s] = None
    /\ show_forgot' = [show_forgot EXCEPT ![s] = TRUE]
    /\ last' = Last("forgot", s, "ok", "", FALSE, 0)
    /\ UNCHANGED <<firebase_user, data_loaded, applications, reviews, show_form,
                   edit_review_index, kpis>>
    /\ UNCHANGED storeVars

\* The "Send Reset Email" form.
SendReset(s, email, accepted) ==
    /\ firebase_user[s] = None
    /\ show_forgot[s]
    /\ IF ~is_iba_user(email)
         THEN /\ last' = Last("reset", s, "rejected", email, FALSE, 0)
              /\ UNCHANGED show_forgot
         ELSE IF accepted /\ email \in idp_accounts
           THEN /\ show_forgot' = [show_forgot EXCEPT ![s] = FALSE]
                /\ last' = Last("reset", s, "ok", email, TRUE, 0)
           ELSE /\ last' = Last("reset", s, "error", email, TRUE, 0)
                /\ UNCHANGED show_forgot
    /\ UNCHANGED <<firebase_user, data_loaded, applications, reviews, show_form,
                   edit_review_index, kpis>>
    /\ UNCHANGED storeVars

\* The "Create Account" form.  create_user raises for a registered address
\* (EMAIL_EXISTS) or when the provider is unreachable; the verification link
\* is generated after the account exists and can fail on its own.
Register(s, email, created, linked) ==
    /\ firebase_user[s] = None
    /\ IF ~is_iba_user(email)
         THEN /\ last' = Last("register", s, "rejected", email, FALSE, 0)
              /\ UNCHANGED idp_accounts
         ELSE IF created /\ email \notin idp_accounts
           THEN /\ idp_accounts' = idp_accounts \cup {email}
                /\ last' = Last("register", s, IF linked THEN "ok" ELSE "error",
                                email, TRUE, 0)
           ELSE /\ last' = Last("register", s, "error", email, TRUE, 0)
                /\ UNCHANGED idp_accounts
    /\ UNCHANGED sessionVars
    /\ UNCHANGED <<db_users, db_apps, db_reviews>>

\* The sidebar's Logout button: session_state.clear(), and the next run
\* re-creates the defaults.
Logout(s) ==
    /\ firebase_user[s] # None
    /\ firebase_user' = [firebase_user EXCEPT ![s] = None]
    /\ show_forgot' = [show_forgot EXCEPT ![s] = FALSE]
    /\ data_loaded' = [data_loaded EXCEPT ![s] = FALSE]
    /\ applications' = [applications EXCEPT ![s] = <<>>]
    /\ reviews' = [reviews EXCEPT ![s] = <<>>]
    /\ show_form' = [show_form EXCEPT ![s] = FALSE]
    /\ edit_review_index' = [edit_review_index EXCEPT ![s] = NoIndex]
    /\ kpis' = [kpis EXCEPT ![s] = ZeroKpis]
    /\ last' = Last("logout", s, "ok", "", FALSE, 0)
    /\ UNCHANGED storeVars

\* ------------------------------------------------------------ the profile
FullNames == [u \in Uids |-> IF u = UserA THEN "Ali" ELSE IF u = UserB THEN "Sara" ELSE "Zed"]

NoProfile == [profile_completed |-> FALSE, full_name |-> ""]

\* The profile gate (src/app.py:176-187) lets a run through to the pages
\* only for a completed profile.
ProfileCompleted(s) ==
    /\ firebase_user[s] # None
    /\ db_users[firebase_user[s]].profile_completed

\* "Save Profile": user_ref.set(profile_data, merge=True) inside try/except.
CompleteProfile(s, full_name, fail) ==
    /\ firebase_user[s] # None
    /\ ~db_users[firebase_user[s]].profile_completed
    /\ IF fail
         THEN /\ last' = Last("save_profile", s, "error", "", FALSE, 0)
              /\ UNCHANGED db_users
         ELSE /\ db_users' = [db_users EXCEPT ![firebase_user[s]] =
                                 [profile_completed |-> TRUE, full_name |-> full_name]]
              /\ last' = Last("save_profile", s, "ok", "", FALSE, 0)
    /\ UNCHANGED sessionVars
    /\ UNCHANGED <<idp_accounts, db_apps, db_reviews>>

\* Every run of a signed-in session reads users/{uid} before anything else,
\* outside any try/except (src/app.py:176-177): when that read raises, the
\* run ends there, whatever widget started it.
ProfileReadFails(s) ==
    /\ firebase_user[s] # None
    /\ last' = Last("profile_read", s, "uncaught", "", FALSE, 0)
    /\ UNCHANGED sessionVars
    /\ UNCHANGED storeVars

\* ------------------------------------------------------------ applications
StatusOptions ==
    <<"Applied", "Assessment Given", "Interview R1 given", "Interview R2 given",
      "Interview R3 given", "Accepted", "Offer Received", "Rejected">>
StatusEnum == {StatusOptions[i] : i \in 1..Len(StatusOptions)}
\* The statuses chosen in the forms of the session specifications.
FormStatuses == {"Applied", "Accepted", "Rejected"}
NaN == "NaN"    \* pandas' value of a cell whose document has no such field

\* A Deadline cell: a date, or a datetime (a date and a time of day).
DateOf(day) == [kind |-> "date", day |-> day]
\* datetime.combine(d, datetime.min.time())
Combine(d) == [kind |-> "datetime", day |-> d.day, time |-> "00:00:00"]

Row(name, status, deadline) ==
    [Company_Name |-> name, Status |-> status, Deadline |-> deadline]

\* row.to_dict() with a date-only Deadline made a datetime (src/app.py:216-219).
StoredRow(row) ==
    IF "Deadline" \in DOMAIN row /\ row.Deadline.kind = "date"
      THEN [row EXCEPT !.Deadline = Combine(row.Deadline)]
      ELSE row

\* All the orders in which documents holding `rows` can come back from
\* stream(): add() gives each a random id, and stream() goes by id.
RECURSIVE Orders(_)
Orders(rows) ==
    IF rows = <<>> THEN {<<>>}
    ELSE LET rest == Orders(SubSeq(rows, 1, Len(rows) - 1))
             x == rows[Len(rows)]
         IN  {SubSeq(r, 1, k) \o <<x>> \o SubSeq(r, k + 1, Len(r)) :
                 r \in rest, k \in 0..(Len(rows) - 1)}

\* save_applications (src/app.py:210-222) on the sub-collection `old` with the
\* cached table `table`, when `done` of its delete and add calls succeed
\* (all Len(old) + Len(table) of them when nothing raises): the possible
\* contents of the sub-collection afterwards.
AppsAfterSave(old, table, done) ==
    IF done < Len(old)
      THEN {SubSeq(old, done + 1, Len(old))}
      ELSE Orders([i \in 1..(done - Len(old)) |-> StoredRow(table[i])])

\* A variant of calculate_kpis: Accepted is not counted as in progress.
calculate_kpis_AcceptedDone(table) ==
    LET Status(i) == IF "Status" \in DOMAIN table[i] THEN table[i].Status ELSE NaN
        N(P(_)) == Cardinality({i \in 1..Len(table) : P(Status(i))})
        IsRejected(st) == st = "Rejected"
        InProgress(st) == st \notin {"Accepted", "Offer Received", "Rejected"}
    IN  [total |-> Len(table), rejected |-> N(IsRejected), in_progress |-> N(InProgress)]

\* calculate_kpis (src/app.py:256-265).  A DataFrame has a Status column
\* when some row has the field; a row without it reads NaN there.
calculate_kpis(table) ==
    LET Status(i) == IF "Status" \in DOMAIN table[i] THEN table[i].Status ELSE NaN
        N(P(_)) == Cardinality({i \in 1..Len(table) : P(Status(i))})
        IsRejected(st) == st = "Rejected"
        InProgress(st) == st \notin {"Offer Received", "Rejected"}
    IN  IF table = <<>> THEN ZeroKpis
        ELSE IF \A i \in 1..Len(table) : "Status" \notin DOMAIN table[i]
          THEN [total |-> Len(table), rejected |-> 0, in_progress |-> Len(table)]
          ELSE [total |-> Len(table), rejected |-> N(IsRejected),
                in_progress |-> N(InProgress)]

\* ---------------------------------------------------------------- load_data
\* reviews_ref.stream(): the documents in id order, each with its id.
RECURSIVE IdsInOrder(_)
IdsInOrder(ids) ==
    IF ids = {} THEN <<>>
    ELSE LET m == CHOOSE x \in ids : \A y \in ids : x <= y
         IN  <<m>> \o IdsInOrder(ids \ {m})

\* {**doc.to_dict(), "id": doc.id}
WithId(doc, id) == ("id" :> id) @@ doc

\* Where load_data (src/app.py:192-204) can raise: at the applications
\* stream, at the user document's get, at the reviews stream.  What was
\* assigned before the exception stays assigned.
LoadFailures == {"none", "apps", "user", "reviews"}

\* A variant of ReviewsAfterLoad: the cached list is left as it is.
ReviewsAfterLoad_KeepCache(s, failAt, store) == reviews[s]

AppsAfterLoad(s, failAt) ==
    IF failAt = "apps" THEN applications[s] ELSE db_apps[firebase_user[s]]

ReviewsAfterLoad(s, failAt, store) ==
    IF failAt = "none"
      THEN LET ids == IdsInOrder(DOMAIN store)
           IN  [i \in 1..Len(ids) |-> WithId(store[ids[i]], ids[i])]
      ELSE reviews[s]

\* The first run after sign-in with a completed profile (src/app.py:206-208):
\* load_data, then data_loaded is set whether or not the load failed.
FirstRun(s, failAt) ==
    /\ ProfileCompleted(s)
    /\ ~data_loaded[s]
    /\ applications' = [applications EXCEPT ![s] = AppsAfterLoad(s, failAt)]
    /\ reviews' = [reviews EXCEPT ![s] = ReviewsAfterLoad(s, failAt, db_reviews)]
    /\ data_loaded' = [data_loaded EXCEPT ![s] = TRUE]
    /\ last' = Last("first_run", s, IF failAt = "none" THEN "ok" ELSE "error", "", FALSE, 0)
    /\ UNCHANGED <<firebase_user, show_forgot, show_form, edit_review_index, kpis>>
    /\ UNCHANGED storeVars

\* A widget of a page exists once a run has drawn the page.
Ready(s) == ProfileCompleted(s) /\ data_loaded[s]

\* ------------------------------------------------------- the profile page
\* A run that draws the profile page and handles no form: the KPIs of the
\* cached table (src/app.py:300-304).
ViewProfile(s) ==
    /\ Ready(s)
    /\ kpis' = [kpis EXCEPT ![s] = calculate_kpis(applications[s])]
    /\ last' = Last("view_profile", s, "ok", "", FALSE, 0)
    /\ UNCHANGED <<firebase_user, show_forgot, data_loaded, applications, reviews,
                   show_form, edit_review_index>>
    /\ UNCHANGED storeVars

\* The cached table becomes `table` and save_applications runs; `done` of its
\* calls succeed and, when `fail`, the next one raises (or the stream does).
SaveTable(s, op, table, fail, done) ==
    LET old == db_apps[firebase_user[s]]
    IN  /\ done \in 0..(Len(old) + Len(table))
        /\ ~fail => done = Len(old) + Len(table)
        /\ fail => done < Len(old) + Len(table) \/ done = 0
        /\ kpis' = [kpis EXCEPT ![s] = calculate_kpis(applications[s])]
        /\ applications' = [applications EXCEPT ![s] = table]
        /\ \E new \in AppsAfterSave(old, table, done) :
               db_apps' = [db_apps EXCEPT ![firebase_user[s]] = new]
        /\ last' = Last(op, s, IF fail THEN "error" ELSE "ok", "", FALSE, 0)
        /\ UNCHANGED <<firebase_user, show_forgot, data_loaded, reviews, show_form,
                       edit_review_index>>
        /\ UNCHANGED <<idp_accounts, db_users, db_reviews>>

\* The "Add Application" form (src/app.py:317-327).
AddApplication(s, name, status, deadline, fail, done) ==
    /\ Ready(s)
    /\ Len(applications[s]) < MaxApps
    /\ SaveTable(s, "add_application", Append(applications[s], Row(name, status, Combine(deadline))),
                 fail, done)

\* One edit in st.data_editor (src/app.py:329-335): a row deleted, or the
\* Status cell of a row changed.
EditedTables(table) ==
    {SubSeq(table, 1, i - 1) \o SubSeq(table, i + 1, Len(table)) : i \in 1..Len(table)}
    \cup {[table EXCEPT ![i].Status = st] : i \in 1..Len(table), st \in FormStatuses}

DataEditor(s, edited, fail, done) ==
    /\ Ready(s)
    /\ edited # applications[s]
    /\ SaveTable(s, "data_editor", edited, fail, done)

\* ---------------------------------------------------------- the feed page
ReviewIds == 1..MaxReviews     \* the document ids add() can give
Positions == 1..MaxReviews     \* the positions of a cached review list
ReviewCompanies == {"Google", "Acme"}
PostOptions == {"Use my full name", "Post Anonymously"}

In(x, list) == \E i \in 1..Len(list) : list[i] = x

\* A variant of ArrayUnion: append without the membership test.
ArrayUnion_Append(list, x) == Append(list, x)

\* firestore.ArrayUnion([x]) and firestore.ArrayRemove([x]) applied by the
\* store to an array field.
ArrayUnion(list, x) == IF In(x, list) THEN list ELSE Append(list, x)

ArrayRemove(list, x) ==
    LET Keep(y) == y # x
    IN  SelectSeq(list, Keep)

\* The "Add Review" button (src/app.py:381-383).
AddReviewButton(s) ==
    /\ Ready(s)
    /\ show_form' = [show_form EXCEPT ![s] = TRUE]
    /\ edit_review_index' = [edit_review_index EXCEPT ![s] = NoIndex]
    /\ last' = Last("add_review_button", s, "ok", "", FALSE, 0)
    /\ UNCHANGED <<firebase_user, show_forgot, data_loaded, applications, reviews, kpis>>
    /\ UNCHANGED storeVars

\* An "Edit" button of the profile page's "Your Reviews" (src/app.py:355-367):
\* there is one for each cached review whose user_id is the current user's.
EditButton(s, i) ==
    /\ Ready(s)
    /\ i \in 1..Len(reviews[s])
    /\ reviews[s][i].user_id = firebase_user[s]
    /\ kpis' = [kpis EXCEPT ![s] = calculate_kpis(applications[s])]
    /\ edit_review_index' = [edit_review_index EXCEPT ![s] = i]
    /\ last' = Last("edit_button", s, "ok", "", FALSE, 0)
    /\ UNCHANGED <<firebase_user, show_forgot, data_loaded, applications, reviews, show_form>>
    /\ UNCHANGED storeVars

\* reviewer_name as the form derives it on every submission (src/app.py:434).
ReviewerName(s, post_option) ==
    IF post_option = "Use my full name"
      THEN db_users[firebase_user[s]].full_name
      ELSE "Anonymous"

\* new_review of the form (src/app.py:435-453), without its id.
NewReview(s, company, post_option, review_to_edit) ==
    [user_id |-> firebase_user[s],
     Company |-> company,
     reviewer_name |-> ReviewerName(s, post_option),
     upvoters |-> IF review_to_edit = <<>> THEN <<>> ELSE review_to_edit.upvoters,
     bookmarkers |-> IF review_to_edit = <<>> THEN <<>> ELSE review_to_edit.bookmarkers]

\* The session after the form has been handled: the cache as load_data left
\* it, the form closed (src/app.py:457-458).
AfterSubmit(s, apps, revs) ==
    /\ applications' = [applications EXCEPT ![s] = apps]
    /\ reviews' = [reviews EXCEPT ![s] = revs]
    /\ show_form' = [show_form EXCEPT ![s] = FALSE]
    /\ edit_review_index' = [edit_review_index EXCEPT ![s] = NoIndex]
    /\ UNCHANGED <<firebase_user, show_forgot, data_loaded, kpis>>
    /\ UNCHANGED <<idp_accounts, db_users, db_apps>>

\* "Submit Review" with a validation error (src/app.py:425-432).
SubmitInvalid(s) ==
    /\ Ready(s)
    /\ show_form[s]
    /\ last' = Last("submit_review", s, "rejected", "", FALSE, 0)
    /\ UNCHANGED sessionVars
    /\ UNCHANGED storeVars

\* "Submit Review" with no review to edit: save_review adds a document with
\* empty upvoters and bookmarkers under a fresh id, then load_data.
CreateReview(s, company, post_option, id, saveFails, failAt) ==
    /\ Ready(s)
    /\ show_form[s]
    /\ edit_review_index[s] = NoIndex
    /\ id \in ReviewIds \ DOMAIN db_reviews
    /\ LET doc == [NewReview(s, company, post_option, <<>>)
                     EXCEPT !.upvoters = <<>>, !.bookmarkers = <<>>]
           store == IF saveFails THEN db_reviews ELSE (id :> doc) @@ db_reviews
       IN  /\ db_reviews' = store
           /\ IF saveFails
                THEN /\ AfterSubmit(s, applications[s], reviews[s])
                     /\ last' = Last("create_review", s, "error", "", FALSE, 0)
                ELSE /\ AfterSubmit(s, AppsAfterLoad(s, failAt),
                                    ReviewsAfterLoad(s, failAt, store))
                     /\ last' = Last("create_review", s,
                                     IF failAt = "none" THEN "ok" ELSE "error",
                                     "", FALSE, id)

\* The document save_review updates in edit mode (src/app.py:242): the one
\* the cached list holds at edit_review_index.
EditTarget(s) == reviews[s][edit_review_index[s]].id

\* "Submit Review" with edit_review_index set: save_review updates every
\* field of new_review in that document, then load_data.
EditReview(s, company, post_option, saveFails, failAt) ==
    /\ Ready(s)
    /\ show_form[s]
    /\ edit_review_index[s] # NoIndex
    /\ LET review_to_edit == reviews[s][edit_review_index[s]]
           data == NewReview(s, company, post_option, review_to_edit)
           id == EditTarget(s)
           store == IF saveFails THEN db_reviews ELSE [db_reviews EXCEPT ![id] = data]
       IN  /\ db_reviews' = store
           /\ IF saveFails
                THEN /\ AfterSubmit(s, applications[s], reviews[s])
                     /\ last' = Last("edit_review", s, "error", "", FALSE, 0)
                ELSE /\ AfterSubmit(s, AppsAfterLoad(s, failAt),
                                    ReviewsAfterLoad(s, failAt, store))
                     /\ last' = Last("edit_review", s,
                                     IF failAt = "none" THEN "ok" ELSE "error",
                                     "", FALSE, id)

\* A variant of ToggledField: the new list is worked out from the cached
\* copy and written back whole.
ToggledField_FromCache(cached, stored, user_id) ==
    IF In(user_id, cached) THEN ArrayRemove(cached, user_id) ELSE ArrayUnion(cached, user_id)

\* The array operation a toggle button sends (src/app.py:503-522): the
\* button drawn, and so the operation, follows the cached copy of the field.
ToggledField(cached, stored, user_id) ==
    IF In(user_id, cached) THEN ArrayRemove(stored, user_id) ELSE ArrayUnion(stored, user_id)

\* An upvote or bookmark button of a review drawn in "Top Reviews".  The
\* update is outside any try/except: when it raises, the run ends there.
\* Otherwise load_data follows.
Toggle(s, i, field, updateFails, failAt) ==
    /\ Ready(s)
    /\ i \in 1..Len(reviews[s])
    /\ LET review == reviews[s][i]
           id == review.id
           op == IF field = "upvoters" THEN "toggle_upvote" ELSE "toggle_bookmark"
           store == [db_reviews EXCEPT ![id][field] =
                        ToggledField(review[field], @, firebase_user[s])]
       IN  IF updateFails
             THEN /\ last' = LastWrite(op, s, "uncaught", 0, <<>>)
                  /\ UNCHANGED sessionVars
                  /\ UNCHANGED storeVars
             ELSE /\ db_reviews' = store
                  /\ applications' = [applications EXCEPT ![s] = AppsAfterLoad(s, failAt)]
                  /\ reviews' = [reviews EXCEPT ![s] = ReviewsAfterLoad(s, failAt, store)]
                  /\ last' = LastWrite(op, s, IF failAt = "none" THEN "ok" ELSE "error",
                                       id, db_reviews[id][field])
                  /\ UNCHANGED <<firebase_user, show_forgot, data_loaded, show_form,
                                 edit_review_index, kpis>>
                  /\ UNCHANGED <<idp_accounts, db_users, db_apps>>

ToggleUpvote(s, i, updateFails, failAt) == Toggle(s, i, "upvoters", updateFails, failAt)

ToggleBookmark(s, i, updateFails, failAt) == Toggle(s, i, "bookmarkers", updateFails, failAt)

\* ------------------------------------------------------ the stipend string
\* Python's str methods on the characters a stipend field is typed with: an
\* ASCII digit, a space, the hyphen, a letter, and SUPERSCRIPT TWO, which
\* str.isdigit() accepts and int() refuses.
MaxStipendLen == 4
StipendAlphabet == {"1", " ", "-", "a", "²"}

RECURSIVE StringsUpTo(_)
StringsUpTo(n) ==
    IF n = 0 THEN {""}
    ELSE LET shorter == StringsUpTo(n - 1)
         IN  shorter \cup {str \o c : str \in shorter, c \in StipendAlphabet}

StipendInputs == StringsUpTo(MaxStipendLen)

CharAt(str, i) == SubSeq(str, i, i)

AllIn(str, chars) == \A i \in 1..Len(str) : CharAt(str, i) \in chars

AsciiDigits == {"0", "1", "2", "3", "4", "5", "6", "7", "8", "9"}
Whitespace == {" "}

\* str.split(sep) for a one-character sep: the pieces between the
\* occurrences of sep, one more piece than there are occurrences.
split(str, sep) ==
    LET n == Len(str)
        at == {i \in 1..n : CharAt(str, i) = sep}
        cut == [k \in 0..(Cardinality(at) + 1) |->
                  IF k = 0 THEN 0
                  ELSE IF k = Cardinality(at) + 1 THEN n + 1
                  ELSE CHOOSE h \in at : Cardinality({g \in at : g < h}) = k - 1]
    IN  [k \in 1..(Cardinality(at) + 1) |-> SubSeq(str, cut[k - 1] + 1, cut[k] - 1)]

\* str.strip(): from the first to the last character that is not whitespace.
strip(str) ==
    LET solid == {i \in 1..Len(str) : CharAt(str, i) \notin Whitespace}
    IN  IF solid = {} THEN ""
        ELSE SubSeq(str, CHOOSE i \in solid : \A j \in solid : i <= j,
                         CHOOSE i \in solid : \A j \in solid : j <= i)

\* str.isdigit(): not empty, every character of Numeric_Type Digit or Decimal.
isdigit(str) ==
    /\ str # ""
    /\ \A i \in 1..Len(str) : CharAt(str, i) \in AsciiDigits \cup {"²"}

\* validate_stipend (src/app.py:267-274); no call in its try block can raise
\* for a str.
validate_stipend(stipend) ==
    IF stipend = "" THEN TRUE
    ELSE LET parts == split(stipend, "-")
         IN  Len(parts) = 2 /\ \A i \in 1..Len(parts) : isdigit(strip(parts[i]))

\* new_review with the two fields the feed's filter reads besides Company.
IndustryOptions == {"Tech", "Finance"}

NewReviewWithStipend(s, company, industry, stipend) ==
    ("Industry" :> industry)
    @@ ("Stipend Range" :> IF stipend = "" THEN "Not Specified" ELSE stipend)
    @@ NewReview(s, company, "Use my full name", <<>>)

\* "Submit Review" of a new review with the stipend field filled in
\* (src/app.py:424-462): the validation message, or save_review and the
\* reload.  The run handled is a session's first review.
SubmitStipend(s, company, industry, stipend, id) ==
    /\ Ready(s)
    /\ show_form[s]
    /\ edit_review_index[s] = NoIndex
    /\ DOMAIN db_reviews = {}
    /\ id \in ReviewIds
    /\ IF ~validate_stipend(stipend)
         THEN /\ last' = ("stipend" :> stipend)
                         @@ Last("submit_review", s, "rejected", "", FALSE, 0)
              /\ UNCHANGED sessionVars
              /\ UNCHANGED storeVars
         ELSE LET store == (id :> NewReviewWithStipend(s, company, industry, stipend))
                           @@ db_reviews
              IN  /\ db_reviews' = store
                  /\ AfterSubmit(s, AppsAfterLoad(s, "none"),
                                 ReviewsAfterLoad(s, "none", store))
                  /\ last' = ("stipend" :> stipend)
                             @@ Last("create_review", s, "ok", "", FALSE, id)

\* ------------------------------------------------- the feed's filter and sort
\* dict.get(key, default)
get(review, key, default) == IF key \in DOMAIN review THEN review[key] ELSE default

\* int(str) for the characters above: surrounding whitespace is ignored, the
\* rest must be ASCII digits; anything else raises ValueError.
IntParses(str) == strip(str) # "" /\ AllIn(strip(str), AsciiDigits)

DigitValue(c) == CHOOSE d \in 0..9 : CharAt("0123456789", d + 1) = c

RECURSIVE DigitsValue(_, _)
DigitsValue(str, n) ==
    IF n = 0 THEN 0
    ELSE 10 * DigitsValue(str, n - 1) + DigitValue(CharAt(str, n))

int(str) == DigitsValue(strip(str), Len(strip(str)))

\* str.lower()
LowerOf ==
    [A |-> "a", B |-> "b", C |-> "c", D |-> "d", E |-> "e", F |-> "f", G |-> "g",
     H |-> "h", I |-> "i", J |-> "j", K |-> "k", L |-> "l", M |-> "m", N |-> "n",
     O |-> "o", P |-> "p", Q |-> "q", R |-> "r", S |-> "s", T |-> "t", U |-> "u",
     V |-> "v", W |-> "w", X |-> "x", Y |-> "y", Z |-> "z"]

LowerChar(c) == IF c \in DOMAIN LowerOf THEN LowerOf[c] ELSE c

RECURSIVE LowerPrefix(_, _)
LowerPrefix(str, n) ==
    IF n = 0 THEN ""
    ELSE LowerPrefix(str, n - 1) \o LowerChar(CharAt(str, n))

lower(str) == LowerPrefix(str, Len(str))

\* a in b, for strings
Contains(a, b) ==
    \E i \in 1..(Len(b) + 1) : i + Len(a) - 1 <= Len(b) /\ SubSeq(b, i, i + Len(a) - 1) = a

\* One pass of the filter loop (src/app.py:466-482): TRUE when the review is
\* appended to filtered_reviews.  A list index out of range, an int() that
\* does not parse, and a missing Company or Industry raise inside the try,
\* and the except skips the review.
Matches(review, company_search, industry_filter, stipend_range) ==
    LET stipend_val == get(review, "Stipend Range", "0-0")
        parts == split(stipend_val, "-")
        parsed == stipend_val = "Not Specified"
                  \/ (Len(parts) >= 2 /\ IntParses(parts[1]) /\ IntParses(parts[2]))
        min_stipend == IF stipend_val = "Not Specified" THEN 0 ELSE int(parts[1])
        max_stipend == IF stipend_val = "Not Specified" THEN 0 ELSE int(parts[2])
    IN  /\ parsed
        /\ "Company" \in DOMAIN review
        /\ Contains(lower(company_search), lower(review.Company))
        /\ industry_filter = "All"
           \/ ("Industry" \in DOMAIN review /\ review.Industry = industry_filter)
        /\ min_stipend >= stipend_range[1]
        /\ max_stipend <= stipend_range[2]

filter_reviews(list, company_search, industry_filter, stipend_range) ==
    LET Keep(review) == Matches(review, company_search, industry_filter, stipend_range)
    IN  SelectSeq(list, Keep)

\* The sort key of "Top Reviews": len(x.get("upvoters", [])).
UpvoteKey(review) == Len(get(review, "upvoters", <<>>))

Reverse(list) == [i \in 1..Len(list) |-> list[Len(list) + 1 - i]]

\* A stable ascending sort: an element comes after every element with a
\* smaller key and after the earlier elements with the same key.
SortedAscending(list) ==
    LET n == Len(list)
        key == [i \in 1..n |-> UpvoteKey(list[i])]
        place == [i \in 1..n |->
                    1 + Cardinality({j \in 1..n : key[j] < key[i]})
                      + Cardinality({j \in 1..(i - 1) : key[j] = key[i]})]
    IN  [p \in 1..n |-> list[CHOOSE i \in 1..n : place[i] = p]]

\* A variant of sorted_reverse: the ascending result read backwards.
sorted_reverse_Backwards(list) == Reverse(SortedAscending(list))

\* sorted(list, key=..., reverse=True): the list is reversed, sorted
\* ascending and stable, and reversed again.
sorted_reverse(list) == Reverse(SortedAscending(Reverse(list)))

TopN == 5

\* [:TopN]
FirstN(list, n) == SubSeq(list, 1, IF Len(list) < n THEN Len(list) ELSE n)

\* The widgets of the feed page (src/app.py:377-379).
CompanySearches == {"", "GOO"}
IndustryFilters == {"All", "Tech"}
StipendRanges == {<<0, 150000>>, <<30000, 100000>>, <<2, 150000>>}

\* A run that draws the feed page and handles no button: the filter over the
\* cached reviews, then the first TopN of the sorted result.
RenderFeed(s, company_search, industry_filter, stipend_range) ==
    /\ Ready(s)
    /\ LET kept == filter_reviews(reviews[s], company_search, industry_filter, stipend_range)
       IN  /\ filtered_reviews' = [filtered_reviews EXCEPT ![s] = kept]
           /\ top_reviews' = [top_reviews EXCEPT ![s] = FirstN(sorted_reverse(kept), TopN)]
    /\ last' = Last("feed", s, "ok", "", FALSE, 0)
    /\ UNCHANGED sessionVars
    /\ UNCHANGED storeVars

\* ------------------------------------------------------------ store states
\* The store and the provider before anyone has registered.
InitStoreFresh ==
    /\ idp_accounts = {}
    /\ db_users = [u \in Uids |-> NoProfile]
    /\ db_apps = [u \in Uids |-> <<>>]
    /\ db_reviews = <<>>

\* The store once the two members have registered and completed their profiles.
InitStoreMembers ==
    /\ idp_accounts = MemberEmails
    /\ db_users = [u \in Uids |->
                     IF u \in {UserA, UserB}
                       THEN [profile_completed |-> TRUE, full_name |-> FullNames[u]]
                       ELSE NoProfile]
    /\ db_apps = [u \in Uids |-> <<>>]
    /\ db_reviews = <<>>

InitLast ==
    /\ last = Last("start", "s1", "ok", "", FALSE, 0)
    /\ runs = 0
    /\ filtered_reviews = [s \in Sessions |-> <<>>]
    /\ top_reviews = [s \in Sessions |-> <<>>]

\* A specification either counts its script runs up to MaxRuns, or leaves
\* the counter alone.  The feed's lists are recorded only by the runs that
\* the feed specifications are about.
Tick == runs < MaxRuns /\ runs' = runs + 1 /\ UNCHANGED feedVars
Still == UNCHANGED runs /\ UNCHANGED feedVars

\* ----------------------------------------------- authentication and profile
InitAuth == InitSession /\ InitStoreFresh /\ InitLast

NextAuth ==
    \E s \in Sessions :
        \/ Still /\ \E email \in FormEmails, accepted \in BOOLEAN : SignIn(s, email, accepted)
        \/ Still /\ ForgotPassword(s)
        \/ Still /\ \E email \in FormEmails, accepted \in BOOLEAN : SendReset(s, email, accepted)
        \/ Still /\ \E email \in FormEmails, created, linked \in BOOLEAN :
                        Register(s, email, created, linked)
        \/ Still /\ \E fail \in BOOLEAN : CompleteProfile(s, FullNames[firebase_user[s]], fail)
        \/ Still /\ ProfileReadFails(s)
        \/ Still /\ Logout(s)

SpecAuth == InitAuth /\ [][NextAuth]_vars

\* ------------------------------------------------------ application tracker
TrackerSession == "s1"
Days == {"2025-06-01"}

InitApps == InitSession /\ InitStoreMembers /\ InitLast

NextApps ==
    \E s \in {TrackerSession} :
        \/ Still /\ \E email \in MemberEmails, accepted \in BOOLEAN : SignIn(s, email, accepted)
        \/ Still /\ \E failAt \in LoadFailures : FirstRun(s, failAt)
        \/ Still /\ ViewProfile(s)
        \/ Still /\ \E status \in FormStatuses, day \in Days, fail \in BOOLEAN,
                       done \in 0..(2 * MaxApps) :
                        AddApplication(s, "Acme", status, DateOf(day), fail, done)
        \/ Still /\ \E edited \in EditedTables(applications[s]), fail \in BOOLEAN,
                       done \in 0..(2 * MaxApps) :
                        DataEditor(s, edited, fail, done)
        \/ Still /\ Logout(s)

SpecApps == InitApps /\ [][NextApps]_vars

\* The tracker when no call of save_applications raises (load_data still can).
NextAppsSaved ==
    \E s \in {TrackerSession} :
        \/ Still /\ \E email \in MemberEmails : SignIn(s, email, TRUE)
        \/ Still /\ \E failAt \in LoadFailures : FirstRun(s, failAt)
        \/ Still /\ ViewProfile(s)
        \/ Still /\ \E status \in FormStatuses, day \in Days, done \in 0..(2 * MaxApps) :
                        AddApplication(s, "Acme", status, DateOf(day), FALSE, done)
        \/ Still /\ \E edited \in EditedTables(applications[s]), done \in 0..(2 * MaxApps) :
                        DataEditor(s, edited, FALSE, done)
        \/ Still /\ Logout(s)

SpecAppsSaved == InitApps /\ [][NextAppsSaved]_vars

\* -------------------------------------------------- calculate_kpis by itself
KpiCells == StatusEnum \cup {NaN}
KpiRow(st) ==
    IF st = NaN THEN [Company_Name |-> "Acme"] ELSE [Company_Name |-> "Acme", Status |-> st]
KpiTables ==
    UNION {[1..n -> {KpiRow(st) : st \in KpiCells}] : n \in 0..MaxKpiLen}

InitKpi ==
    /\ firebase_user = [s \in Sessions |-> IF s = TrackerSession THEN UserA ELSE None]
    /\ show_forgot = [s \in Sessions |-> FALSE]
    /\ data_loaded = [s \in Sessions |-> s = TrackerSession]
    /\ \E table \in KpiTables :
           applications = [s \in Sessions |-> IF s = TrackerSession THEN table ELSE <<>>]
    /\ reviews = [s \in Sessions |-> <<>>]
    /\ show_form = [s \in Sessions |-> FALSE]
    /\ edit_review_index = [s \in Sessions |-> NoIndex]
    /\ kpis = [s \in Sessions |-> ZeroKpis]
    /\ InitStoreMembers
    /\ InitLast

NextKpi == Still /\ ViewProfile(TrackerSession)

SpecKpi == InitKpi /\ [][NextKpi]_vars

\* ------------------------------------------------------------ the portal
\* Each session signs in as one member.
MemberOf(s) == IF s = "s1" THEN EmailA ELSE EmailB

Init == InitSession /\ InitStoreMembers /\ InitLast

Next ==
    \E s \in Sessions :
        \/ Tick /\ SignIn(s, MemberOf(s), TRUE)
        \/ Tick /\ \E failAt \in LoadFailures : FirstRun(s, failAt)
        \/ Tick /\ AddReviewButton(s)
        \/ Tick /\ \E i \in Positions : EditButton(s, i)
        \/ Tick /\ SubmitInvalid(s)
        \/ Tick /\ \E company \in ReviewCompanies, post_option \in PostOptions,
                      id \in ReviewIds, saveFails \in BOOLEAN, failAt \in LoadFailures :
                       CreateReview(s, company, post_option, id, saveFails, failAt)
        \/ Tick /\ \E company \in ReviewCompanies, post_option \in PostOptions,
                      saveFails \in BOOLEAN, failAt \in LoadFailures :
                       EditReview(s, company, post_option, saveFails, failAt)
        \/ Tick /\ \E i \in Positions, updateFails \in BOOLEAN, failAt \in LoadFailures :
                       ToggleUpvote(s, i, updateFails, failAt)
        \/ Tick /\ \E i \in Positions, updateFails \in BOOLEAN, failAt \in LoadFailures :
                       ToggleBookmark(s, i, updateFails, failAt)
        \/ Tick /\ Logout(s)

Spec == Init /\ [][Next]_vars

\* ---------------------------------------------- the portal, members at work
\* Both members have signed in and their first runs have loaded the (empty)
\* store; no store call fails.
InitSteady ==
    /\ firebase_user = [s \in Sessions |-> LocalId(MemberOf(s))]
    /\ show_forgot = [s \in Sessions |-> FALSE]
    /\ data_loaded = [s \in Sessions |-> TRUE]
    /\ applications = [s \in Sessions |-> <<>>]
    /\ reviews = [s \in Sessions |-> <<>>]
    /\ show_form = [s \in Sessions |-> FALSE]
    /\ edit_review_index = [s \in Sessions |-> NoIndex]
    /\ kpis = [s \in Sessions |-> ZeroKpis]
    /\ InitStoreMembers
    /\ last = Last("first_run", "s2", "ok", "", FALSE, 0)
    /\ runs = 0
    /\ filtered_reviews = [s \in Sessions |-> <<>>]
    /\ top_reviews = [s \in Sessions |-> <<>>]

NextSteady ==
    \E s \in Sessions :
        \/ Tick /\ AddReviewButton(s)
        \/ Tick /\ \E i \in Positions : EditButton(s, i)
        \/ Tick /\ \E company \in ReviewCompanies, post_option \in PostOptions, id \in ReviewIds :
                       CreateReview(s, company, post_option, id, FALSE, "none")
        \/ Tick /\ \E company \in ReviewCompanies, post_option \in PostOptions :
                       EditReview(s, company, post_option, FALSE, "none")
        \/ Tick /\ \E i \in Positions : ToggleUpvote(s, i, FALSE, "none")
        \/ Tick /\ \E i \in Positions : ToggleBookmark(s, i, FALSE, "none")

SpecSteady == InitSteady /\ [][NextSteady]_vars

\* --------------------------------------------------- the stipend validation
\* One member with the review form open submits it with every stipend text.
InitStipend ==
    /\ firebase_user = [s \in Sessions |-> IF s = TrackerSession THEN UserA ELSE None]
    /\ show_forgot = [s \in Sessions |-> FALSE]
    /\ data_loaded = [s \in Sessions |-> s = TrackerSession]
    /\ applications = [s \in Sessions |-> <<>>]
    /\ reviews = [s \in Sessions |-> <<>>]
    /\ show_form = [s \in Sessions |-> s = TrackerSession]
    /\ edit_review_index = [s \in Sessions |-> NoIndex]
    /\ kpis = [s \in Sessions |-> ZeroKpis]
    /\ InitStoreMembers
    /\ InitLast

NextStipend ==
    \/ Still /\ \E stipend \in StipendInputs, id \in ReviewIds :
                    SubmitStipend(TrackerSession, "Google", "Tech", stipend, id)
    \/ Still /\ AddReviewButton(TrackerSession)

SpecStipend == InitStipend /\ [][NextStipend]_vars

\* ------------------------------------------------------------ the feed page
\* One member whose cache was loaded from a reviews collection of any
\* content draws the feed with every setting of its widgets.  The documents
\* are whatever the shared collection holds: with and without the fields
\* the filter and the sort read, and with stipend texts of every shape the
\* filter's try/except is there for.
MaxFilterLen == 2
MaxRankLen == 6

StoredStipends == {"Not Specified", "1-3", " 1 - 3", "1-3-1", "13", "a-1", "²-3"}

BareDoc(company) ==
    [user_id |-> UserB, Company |-> company, reviewer_name |-> "Anonymous",
     bookmarkers |-> <<>>]

FilterDocs ==
    LET docs == {("upvoters" :> <<>>) @@ ("Industry" :> industry) @@ BareDoc(company) :
                    company \in ReviewCompanies, industry \in IndustryOptions}
    IN  docs \cup {("Stipend Range" :> stipend) @@ doc : stipend \in StoredStipends, doc \in docs}

\* Documents with 0, 1 and 2 upvoters and one without the field; the one
\* with a stipend is the only one a range above 0 keeps.
RankDocs ==
    LET doc(stipend) == ("Stipend Range" :> stipend) @@ ("Industry" :> "Tech")
                        @@ BareDoc("Google")
    IN  {doc("Not Specified"),
         ("upvoters" :> <<>>) @@ doc("Not Specified"),
         ("upvoters" :> <<UserA>>) @@ doc("3-11"),
         ("upvoters" :> <<UserA, UserB>>) @@ doc("Not Specified")}

FilterLists == UNION {[1..n -> FilterDocs] : n \in 0..MaxFilterLen}
RankLists == UNION {[1..n -> RankDocs] : n \in 0..MaxRankLen}

InitCached(lists) ==
    /\ firebase_user = [s \in Sessions |-> IF s = TrackerSession THEN UserA ELSE None]
    /\ show_forgot = [s \in Sessions |-> FALSE]
    /\ data_loaded = [s \in Sessions |-> s = TrackerSession]
    /\ applications = [s \in Sessions |-> <<>>]
    /\ \E docs \in lists :
           /\ db_reviews = docs
           /\ reviews = [s \in Sessions |->
                           IF s = TrackerSession
                             THEN ReviewsAfterLoad(s, "none", docs)
                             ELSE <<>>]
    /\ show_form = [s \in Sessions |-> FALSE]
    /\ edit_review_index = [s \in Sessions |-> NoIndex]
    /\ kpis = [s \in Sessions |-> ZeroKpis]
    /\ idp_accounts = MemberEmails
    /\ db_users = [u \in Uids |->
                     IF u \in {UserA, UserB}
                       THEN [profile_completed |-> TRUE, full_name |-> FullNames[u]]
                       ELSE NoProfile]
    /\ db_apps = [u \in Uids |-> <<>>]
    /\ InitLast

InitFeed == InitCached(FilterLists)

NextFeed ==
    /\ UNCHANGED runs
    /\ \E company_search \in CompanySearches, industry_filter \in IndustryFilters,
          stipend_range \in StipendRanges :
           RenderFeed(TrackerSession, company_search, industry_filter, stipend_range)

SpecFeed == InitFeed /\ [][NextFeed]_vars

\* The same page over longer lists, for the order of "Top Reviews": the
\* search box empty, every industry, and the slider's lower end at 0, at 2
\* and where the page first puts it.
InitRank == InitCached(RankLists)

NextRank ==
    /\ UNCHANGED runs
    /\ \E stipend_range \in StipendRanges :
           RenderFeed(TrackerSession, "", "All", stipend_range)

SpecRank == InitRank /\ [][NextRank]_vars

\* ------------------------------------------------- one session, no failures
\* The first member alone: no other session runs and no call fails.  The
\* collection starts empty or with a review the other member wrote earlier.
EarlierReview ==
    [user_id |-> UserB, Company |-> "Acme", reviewer_name |-> "Anonymous",
     upvoters |-> <<UserB>>, bookmarkers |-> <<>>]

InitSolo ==
    /\ InitSession
    /\ idp_accounts = MemberEmails
    /\ db_users = [u \in Uids |->
                     IF u \in {UserA, UserB}
                       THEN [profile_completed |-> TRUE, full_name |-> FullNames[u]]
                       ELSE NoProfile]
    /\ db_apps = [u \in Uids |-> <<>>]
    /\ db_reviews \in {<<>>, <<EarlierReview>>}
    /\ InitLast

NextSolo ==
    \/ Still /\ SignIn(TrackerSession, EmailA, TRUE)
    \/ Still /\ FirstRun(TrackerSession, "none")
    \/ Still /\ AddReviewButton(TrackerSession)
    \/ Still /\ \E i \in Positions : EditButton(TrackerSession, i)
    \/ Still /\ SubmitInvalid(TrackerSession)
    \/ Still /\ \E company \in ReviewCompanies, post_option \in PostOptions, id \in ReviewIds :
                    CreateReview(TrackerSession, company, post_option, id, FALSE, "none")
    \/ Still /\ \E company \in ReviewCompanies, post_option \in PostOptions :
                    EditReview(TrackerSession, company, post_option, FALSE, "none")
    \/ Still /\ \E i \in Positions : ToggleUpvote(TrackerSession, i, FALSE, "none")
    \/ Still /\ \E i \in Positions : ToggleBookmark(TrackerSession, i, FALSE, "none")
    \/ Still /\ Logout(TrackerSession)

SpecSolo == InitSolo /\ [][NextSolo]_vars

\* The sessions and the store of InitSteady are a state of the portal.
SteadyStateReached ==
    /\ \A s \in Sessions : firebase_user[s] = LocalId(MemberOf(s)) /\ data_loaded[s]
    /\ db_reviews = <<>>
    /\ \A s \in Sessions : reviews[s] = <<>> /\ ~show_form[s]

\* ------------------------------------------------------------------ claims
Count(list, x) == Cardinality({i \in 1..Len(list) : list[i] = x})
Elems(list) == {list[i] : i \in 1..Len(list)}

\* Two lists hold the same rows the same number of times.
SameRows(a, b) ==
    /\ Len(a) = Len(b)
    /\ \A x \in Elems(a) \cup Elems(b) : Count(a, x) = Count(b, x)

SaveOps == {"add_application", "data_editor"}

\* C1: once save_applications has returned, the user's applications
\* sub-collection holds exactly the rows of the cached table, as a multiset.
C1_RemoteEqualsCacheAfterSave ==
    last.op \in SaveOps =>
        SameRows(db_apps[firebase_user[last.s]], applications[last.s])

\* The same for the saves during which no store call raised.
C1_RemoteEqualsCacheAfterCleanSave ==
    (last.op \in SaveOps /\ last.outcome = "ok") =>
        SameRows(db_apps[firebase_user[last.s]], applications[last.s])

\* C2: an "Add Application" submission (here: one whose save raised nothing)
\* for a user with n remote application documents leaves the n documents
\* and one more with the submitted values, and calculate_kpis then reports
\* total = n + 1 (total 1, in progress 1, rejected 0 for n = 0 and Applied).
C2_AddLeavesOneMore ==
    [][(last'.op = "add_application" /\ last'.outcome = "ok") =>
         LET s == last'.s
             u == firebase_user[s]
             submitted == applications'[s][Len(applications'[s])]
             k == calculate_kpis(applications'[s])
         IN  /\ SameRows(db_apps'[u], Append(db_apps[u], submitted))
             /\ k.total = Len(db_apps[u]) + 1
             /\ (db_apps[u] = <<>> /\ submitted.Status = "Applied") =>
                    k = [total |-> 1, rejected |-> 0, in_progress |-> 1]]_vars

ToggleOps == {"toggle_upvote", "toggle_bookmark"}
FieldOf(op) == IF op = "toggle_upvote" THEN "upvoters" ELSE "bookmarkers"
\* A run that sent a toggle's array update to the store.
Toggled(l) == l.op \in ToggleOps /\ l.outcome # "uncaught"

\* C3: two toggles in succession by the same user on the same review and
\* field return the field of the stored review to its original set and size.
C3_DoubleToggleRestores ==
    [][(Toggled(last) /\ Toggled(last') /\ last'.op = last.op /\ last'.s = last.s
          /\ last'.rid = last.rid) =>
         LET after == db_reviews'[last'.rid][FieldOf(last'.op)]
         IN  Elems(after) = Elems(last.before) /\ Len(after) = Len(last.before)]_vars

\* A run whose save_review updated a stored review in edit mode.
Edited(l) == l.op = "edit_review" /\ l.rid # 0

\* C4: an edit-mode save_review leaves the stored review's upvoters and
\* bookmarkers as they were in the store just before the update.
C4_EditKeepsVotes ==
    [][Edited(last') =>
         /\ last'.rid \in DOMAIN db_reviews
         /\ db_reviews'[last'.rid].upvoters = db_reviews[last'.rid].upvoters
         /\ db_reviews'[last'.rid].bookmarkers = db_reviews[last'.rid].bookmarkers]_vars

NoDuplicates(list) == \A i, j \in 1..Len(list) : list[i] = list[j] => i = j

C6_EditOnlyOwnReview ==
    [][Edited(last') => db_reviews[last'.rid].user_id = firebase_user[last'.s]]_vars

\* C7: no operation changes the reviewer_name stored with a review.
C7_ReviewerNameFixed ==
    [][\A id \in DOMAIN db_reviews :
          db_reviews'[id].reviewer_name = db_reviews[id].reviewer_name]_vars

\* The user actions whose store and provider calls C8 is about.
GuardedOps ==
    {"sign_in", "register", "reset", "first_run", "add_application", "data_editor",
     "create_review", "edit_review", "toggle_upvote", "toggle_bookmark"}

\* C8: no failure of a store or provider call leaves one of these actions
\* as an uncaught exception.
C8_NoUncaughtFailure == last.op \in GuardedOps => last.outcome # "uncaught"

\* The eligibility rule as the specification words it.
AcceptedEmail(email) ==
    EndsWith(email, "@iba.edu.pk") \/ EndsWith(email, "@khi.iba.edu.pk")

ProviderOps == {"sign_in", "register", "reset"}

\* C9: a sign-in, account-creation or password-reset request goes to the
\* provider exactly for an address with one of the two suffixes; any other
\* address is rejected and leaves the session unauthenticated; a session
\* becomes authenticated only by a successful sign-in with such an address.
C9_OnlyMembersReachProvider ==
    [][/\ last'.op \in ProviderOps =>
            /\ last'.sent <=> AcceptedEmail(last'.email)
            /\ ~AcceptedEmail(last'.email) =>
                   last'.outcome = "rejected" /\ firebase_user'[last'.s] = None
       /\ \A s \in Sessions :
            (firebase_user[s] = None /\ firebase_user'[s] # None) =>
                /\ last'.op = "sign_in" /\ last'.s = s /\ last'.outcome = "ok"
                /\ AcceptedEmail(last'.email)
                /\ firebase_user'[s] = LocalId(last'.email)]_vars

\* One session has signed in with a khi.iba.edu.pk address while the other
\* is still unauthenticated.
C9_Witness ==
    /\ last.op = "sign_in" /\ last.outcome = "ok" /\ last.email = EmailB
    /\ firebase_user[last.s] = UserB
    /\ \E s \in Sessions : s # last.s /\ firebase_user[s] = None

StatusCount(table, statuses) ==
    Cardinality({i \in 1..Len(table) :
                    "Status" \in DOMAIN table[i] /\ table[i].Status \in statuses})

\* The table the profile page last computed its KPIs from.
Rendered == last.op = "view_profile"

\* C10 as stated: in_progress + rejected + count(Accepted or Offer Received)
\* equals total.
C10_CountersAddUp_AsStated ==
    Rendered =>
        LET k == kpis[last.s]
        IN  k.in_progress + k.rejected
              + StatusCount(applications[last.s], {"Accepted", "Offer Received"}) = k.total

\* C10, amended: in_progress + rejected + count(Offer Received) equals total
\* (an Accepted application is counted as in progress).
C10_CountersAddUp ==
    Rendered =>
        LET k == kpis[last.s]
        IN  /\ k.total = Len(applications[last.s])
            /\ k.in_progress + k.rejected
                 + StatusCount(applications[last.s], {"Offer Received"}) = k.total

\* The KPIs of a table holding an Accepted, an Offer Received and a Rejected row.
C10_Witness ==
    /\ Rendered
    /\ \A st \in {"Accepted", "Offer Received", "Rejected"} :
           StatusCount(applications[last.s], {st}) = 1
    /\ kpis[last.s] = [total |-> 3, rejected |-> 1, in_progress |-> 1]


\* The pattern ^\d+\s*-\s*\d+$ matched against the whole string: digits,
\* whitespace, one hyphen, whitespace, digits.
MatchesStipendPattern(str) ==
    \E h \in 1..Len(str), a \in 1..Len(str), b \in 1..(Len(str) + 1) :
        /\ a < h /\ h < b /\ b <= Len(str)
        /\ CharAt(str, h) = "-"
        /\ AllIn(SubSeq(str, 1, a), AsciiDigits)
        /\ AllIn(SubSeq(str, a + 1, h - 1), Whitespace)
        /\ AllIn(SubSeq(str, h + 1, b - 1), Whitespace)
        /\ AllIn(SubSeq(str, b, Len(str)), AsciiDigits)

StipendOps == {"submit_review", "create_review"}

\* C11: a submitted stipend text passes validate_stipend exactly when it is
\* empty or matches ^\d+\s*-\s*\d+$.
C11_ValidIffPattern ==
    (last.op \in StipendOps /\ "stipend" \in DOMAIN last) =>
        (last.outcome # "rejected"
            <=> (last.stipend = "" \/ MatchesStipendPattern(last.stipend)))


\* An integer as text: digits, with whitespace allowed around them.
IntegerText(str) ==
    \E a \in 1..Len(str), b \in 1..Len(str) :
        /\ a <= b
        /\ AllIn(SubSeq(str, 1, a - 1), Whitespace)
        /\ AllIn(SubSeq(str, a, b), AsciiDigits)
        /\ AllIn(SubSeq(str, b + 1, Len(str)), Whitespace)

\* min-max: exactly one hyphen, an integer on each side of it.
IsMinMax(str) ==
    \E h \in 1..Len(str) :
        /\ CharAt(str, h) = "-"
        /\ \A j \in 1..Len(str) : CharAt(str, j) = "-" => j = h
        /\ IntegerText(SubSeq(str, 1, h - 1))
        /\ IntegerText(SubSeq(str, h + 1, Len(str)))

\* C12: no review whose stipend text is neither "Not Specified" nor min-max
\* with exactly two integer parts is in the filter's result.
C12_MalformedStipendExcluded ==
    \A s \in Sessions : \A i \in 1..Len(filtered_reviews[s]) :
        LET review == filtered_reviews[s][i]
        IN  "Stipend Range" \in DOMAIN review =>
                \/ review["Stipend Range"] = "Not Specified"
                \/ IsMinMax(review["Stipend Range"])

\* The upvote count of a review; 0 without the field.
UpvoteCount(review) == IF "upvoters" \in DOMAIN review THEN Len(review.upvoters) ELSE 0

PositionOf(list, id) == CHOOSE i \in 1..Len(list) : list[i].id = id

\* x is listed before y by descending upvote count, ties in input order.
RanksBefore(list, x, y) ==
    \/ UpvoteCount(x) > UpvoteCount(y)
    \/ UpvoteCount(x) = UpvoteCount(y) /\ PositionOf(list, x.id) < PositionOf(list, y.id)

\* C13: Top Reviews holds the first 5 of the filtered reviews in descending
\* order of upvote count, reviews of equal count in their input order, a
\* review without upvoters counting 0.
C13_TopIsStableDescending ==
    \A s \in Sessions :
        LET kept == filtered_reviews[s]
            top == top_reviews[s]
        IN  /\ Len(top) = IF Len(kept) < 5 THEN Len(kept) ELSE 5
            /\ \A i \in 1..Len(top) : \E k \in 1..Len(kept) : kept[k] = top[i]
            /\ \A i \in 1..Len(top), j \in 1..Len(top) :
                   i < j => RanksBefore(kept, top[i], top[j])
            /\ \A k \in 1..Len(kept) :
                   (\A i \in 1..Len(top) : top[i] # kept[k]) =>
                       \A i \in 1..Len(top) : RanksBefore(kept, top[i], kept[k])

\* Six reviews passed the filter, one of them without upvoters, two of the
\* five listed have the same count, and the first listed is not the first
\* of the input.
C13_Witness ==
    \E s \in Sessions :
        /\ last.op = "feed"
        /\ Len(filtered_reviews[s]) = 6
        /\ Len(top_reviews[s]) = 5
        /\ \E k \in 1..6 : "upvoters" \notin DOMAIN filtered_reviews[s][k]
        /\ \E i \in 1..4 : UpvoteCount(top_reviews[s][i]) = UpvoteCount(top_reviews[s][i + 1])
        /\ top_reviews[s][1] # filtered_reviews[s][1]


OtherField(field) == IF field = "upvoters" THEN "bookmarkers" ELSE "upvoters"

\* C14: a toggle changes nothing in the store but the toggling user's own
\* membership in the toggled field of the toggled review: every other
\* user's membership, the other field, the review's other values and every
\* other review stay as they were, whatever other sessions did before; the
\* user ends up a member exactly when the button drawn was the one that adds.
C14_ToggleTouchesOwnMembershipOnly ==
    [][last'.op \in ToggleOps =>
         LET s == last'.s
             user_id == firebase_user[s]
             field == FieldOf(last'.op)
             rid == last'.rid
         IN  IF ~Toggled(last')
               THEN db_reviews' = db_reviews
               ELSE /\ DOMAIN db_reviews' = DOMAIN db_reviews
                    /\ \A id \in DOMAIN db_reviews \ {rid} : db_reviews'[id] = db_reviews[id]
                    /\ DOMAIN db_reviews'[rid] = DOMAIN db_reviews[rid]
                    /\ \A key \in DOMAIN db_reviews[rid] \ {field} :
                           db_reviews'[rid][key] = db_reviews[rid][key]
                    /\ ArrayRemove(db_reviews'[rid][field], user_id)
                           = ArrayRemove(db_reviews[rid][field], user_id)
                    /\ \E i \in 1..Len(reviews[s]) :
                           /\ reviews[s][i].id = rid
                           /\ In(user_id, db_reviews'[rid][field])
                                  <=> ~In(user_id, reviews[s][i][field])]_vars

\* The second session has upvoted a review the first session's user had
\* upvoted, and the store names both.
C14_Witness ==
    /\ last.op = "toggle_upvote" /\ last.s = "s2" /\ last.outcome = "ok"
    /\ last.before = <<UserA>>
    /\ db_reviews[last.rid].upvoters = <<UserA, UserB>>


MutatingOps == {"create_review", "edit_review", "toggle_upvote", "toggle_bookmark"}

\* The cached list holds each stored review once, with every stored value
\* and its document id, and nothing else.
CacheEqualsRemote(s) ==
    /\ Len(reviews[s]) = Cardinality(DOMAIN db_reviews)
    /\ \A id \in DOMAIN db_reviews :
           \E i \in 1..Len(reviews[s]) :
               /\ reviews[s][i].id = id
               /\ DOMAIN reviews[s][i] = DOMAIN db_reviews[id] \cup {"id"}
               /\ \A key \in DOMAIN db_reviews[id] : reviews[s][i][key] = db_reviews[id][key]

\* C15: with one session, no failing call and no other writer, the cached
\* reviews equal the stored collection after every create, edit, upvote
\* toggle and bookmark toggle.
C15_CacheReloadedAfterMutation ==
    last.op \in MutatingOps => (last.outcome = "ok" /\ CacheEqualsRemote(last.s))

\* An edit has been saved while the collection holds two reviews, one of
\* them upvoted by the editing user.
C15_Witness ==
    /\ last.op = "edit_review"
    /\ Cardinality(DOMAIN db_reviews) = 2
    /\ \E id \in DOMAIN db_reviews : In(UserA, db_reviews[id].upvoters)
    /\ Len(reviews[last.s]) = 2

=============================================================================
